---- MODULE Spec2Model ----
(***************************************************************************)
(* Model of daemon/src/win/win_console.cpp: the command dispatch of        *)
(* WinConsole::run(), the driver lifecycle wrappers, and the interplay of  *)
(* runDaemon() with the console control handler.                           *)
(***************************************************************************)
EXTENDS Integers, Sequences, FiniteSets, TLC

VARIABLES
    args,           \* _arguments: the argument vector, a sequence of tokens
    pc,             \* position of the primary context inside run()/runDaemon()
    command,        \* the branch of run() that was selected
    logTarget,      \* the log file handed to the Logger
    printed,        \* what run() wrote to stdout
    calls,          \* backend operations invoked so far, in order, with outcome
    exitCode,       \* value returned by run()
    escaped,        \* TRUE iff an Error propagated out of run()
    daemon,         \* _daemon: "null" or "WinDaemon"
    lifecycle,      \* lifecycle of the daemon object
    loop,           \* QCoreApplication event loop of the primary thread
    eventQueue,     \* invocations posted to g_console, not yet delivered
    handlers,       \* number of registrations of ctrlHandler with the OS
    ctrlHandlerInstalled, \* local of runDaemon()
    signals,        \* console control events delivered so far
    handled,        \* return value of the last ctrlHandler call
    stopCalls,      \* number of times Daemon::stop() was entered
    requestedAt,    \* state of the event loop at the first stop signal
    earlyStop       \* stopDaemon() called before run(): "none", or how it ended

vars == <<args, pc, command, logTarget, printed, calls, exitCode, escaped,
          daemon, lifecycle, loop, eventQueue, handlers, ctrlHandlerInstalled,
          signals, handled, stopCalls, requestedAt, earlyStop>>

dispatchVars == <<command, logTarget, printed, calls, exitCode, escaped>>
daemonVars == <<daemon, lifecycle, loop, eventQueue, handlers,
                ctrlHandlerInstalled, signals, handled, stopCalls,
                requestedAt, earlyStop>>

----------------------------------------------------------------------------
(* Bounds *)

\* longest argument vector, program name included
MaxArgs == 3
\* console control events delivered during one run
MaxSignals == 2

----------------------------------------------------------------------------
(* Tokens are sequences of characters *)

CasePairs ==
    { <<"a","A">>, <<"c","C">>, <<"e","E">>, <<"h","H">>, <<"i","I">>,
      <<"l","L">>, <<"n","N">>, <<"o","O">>, <<"p","P">>, <<"r","R">>,
      <<"s","S">>, <<"t","T">>, <<"u","U">>, <<"f","F">> }

toLower(c) ==
    IF \E p \in CasePairs : p[2] = c
    THEN (CHOOSE p \in CasePairs : p[2] = c)[1]
    ELSE c

toUpper(c) ==
    IF \E p \in CasePairs : p[1] = c
    THEN (CHOOSE p \in CasePairs : p[1] = c)[2]
    ELSE c

LowerToken(t) == [i \in 1..Len(t) |-> toLower(t[i])]
UpperToken(t) == [i \in 1..Len(t) |-> toUpper(t[i])]
Capitalized(t) == [i \in 1..Len(t) |-> IF i = 1 THEN toUpper(t[i]) ELSE t[i]]
LowerArgs(a) == [i \in 1..Len(a) |-> IF i = 1 THEN a[i] ELSE LowerToken(a[i])]

\* the string literals of run()
T_help      == <<"h","e","l","p">>
T_slashq    == <<"/","?">>
T_run       == <<"r","u","n">>
T_install   == <<"i","n","s","t","a","l","l">>
T_uninstall == <<"u","n","i","n","s","t","a","l","l">>
T_start     == <<"s","t","a","r","t">>
T_stop      == <<"s","t","o","p">>
T_tap       == <<"t","a","p">>
T_tun       == <<"t","u","n">>
T_callout   == <<"c","a","l","l","o","u","t">>
T_reinstall == <<"r","e","i","n","s","t","a","l","l">>
T_create    == <<"c","r","e","a","t","e">>

Keywords == { T_help, T_slashq, T_run, T_install, T_uninstall, T_start,
              T_stop, T_tap, T_tun, T_callout, T_reinstall, T_create }

\* tokens that are no command: prefixes, extensions, the empty token
OtherTokens == { <<"r","u">>, <<"r","u","n","n">>, <<"t","a">>,
                 <<"i","n","s","t","a","l">>, <<"f","o","o">>, <<>> }

MixedTokens == { Capitalized(T_run), Capitalized(T_tap),
                 Capitalized(T_callout), Capitalized(T_install),
                 <<"r","e","I","n","S","t","a","l","l">> }

Tokens == Keywords \cup { UpperToken(k) : k \in Keywords }
                   \cup MixedTokens \cup OtherTokens

ProgramName == <<"p","i","a","-","s","e","r","v","i","c","e">>
ExtraToken == <<"x">>

\* argument vectors: run() reads args[0..2] only, later tokens are fixed
ArgVectors ==
    { <<>>, <<ProgramName>> }
    \cup { <<ProgramName, t>> : t \in Tokens }
    \cup { <<ProgramName, t1, t2>> \o [i \in 1..n |-> ExtraToken] :
             t1 \in Tokens, t2 \in Tokens, n \in 0..(MaxArgs - 3) }

----------------------------------------------------------------------------
(* MATCH_ARG: QString::compare(QLatin1String(text), Qt::CaseInsensitive)   *)

compareCaseSensitive(s, text) == s = text

compareStartsWith(s, text) ==
    /\ Len(s) <= Len(text)
    /\ \A k \in 1..Len(s) : toLower(s[k]) = toLower(text[k])

compareCaseInsensitive(s, text) ==
    /\ Len(s) = Len(text)
    /\ \A k \in 1..Len(s) : toLower(s[k]) = toLower(text[k])

\* i is the C++ index (0-based)
MATCH_ARG(a, i, text) == compareCaseInsensitive(a[i + 1], text)

----------------------------------------------------------------------------
(* DriverStatus (declared in tap_inl.h); only the members used here.  The  *)
(* code relies on the ordinals being distinct and returns them as ints.    *)

DriverInstalled         == 20
DriverInstalledReboot   == 21
DriverInstallFailed     == 22
DriverUninstalled       == 30
DriverUninstalledReboot == 31
DriverUninstallFailed   == 32

DriverStatusValues ==
    { DriverInstalled, DriverInstalledReboot, DriverInstallFailed,
      DriverUninstalled, DriverUninstalledReboot, DriverUninstallFailed }

\* system codes an Error can carry: the seven run() names, and two others
ListedServiceCodes ==
    { "ERROR_SERVICE_EXISTS", "ERROR_SERVICE_DOES_NOT_EXIST",
      "ERROR_SERVICE_ALREADY_RUNNING", "ERROR_SERVICE_NOT_ACTIVE" }
ListedTrustCodes ==
    { "ERROR_SERVICE_MARKED_FOR_DELETE",
      "ERROR_AUTHENTICODE_PUBLISHER_NOT_TRUSTED",
      "ERROR_AUTHENTICODE_TRUST_NOT_ESTABLISHED" }
SystemCodes ==
    ListedServiceCodes \cup ListedTrustCodes
        \cup { "ERROR_ACCESS_DENIED", "ERROR_FILE_NOT_FOUND" }

(* Outcome of one backend call: it returns a code or raises an Error *)
Ret(v)   == [thrown |-> FALSE, code |-> v, sys |-> "none"]
Throw(s) == [thrown |-> TRUE,  code |-> 0, sys |-> s]
NoCall   == [thrown |-> FALSE, code |-> 0, sys |-> "unused"]

\* WinService::installService() and its siblings
ServiceOutcomes == { Ret(c) : c \in {0, 1} } \cup { Throw(s) : s \in SystemCodes }
\* ::installTapDriver, ::uninstallTapDriver, ::installCalloutDriver, ...
DriverOutcomes ==
    { Ret(c) : c \in DriverStatusValues \cup {0, 1} }
        \cup { Throw(s) : s \in SystemCodes }
\* WintunModule::deleteDriver(), WintunModule::recreateAdapter(): 1 is
\* success (true, a non-null adapter), 0 is failure
WintunOutcomes == { Ret(0), Ret(1) }
\* Exec::cmd: the exit code of the control client, traced and dropped
ExecOutcomes == { Ret(0), Ret(1) }

Call(op, flags, out) == [op |-> op, flags |-> flags, out |-> out]
\* what a wrapper did: the backend calls it made, and how it ended
Did(cs, out) == [calls |-> cs, out |-> out]

----------------------------------------------------------------------------
(* The driver lifecycle wrappers.  Parameters are the outcomes of the      *)
(* backend calls they make, in call order.                                 *)

installTapDriver(force, o) ==
    Did(<<Call("installTapDriver", <<FALSE, force, FALSE>>, o)>>, o)

uninstallTapDriver(o) ==
    Did(<<Call("uninstallTapDriver", <<TRUE, FALSE>>, o)>>, o)

reinstallTapDriverSurfacing(u, i) ==
    LET un == Call("uninstallTapDriver", <<FALSE, FALSE>>, u)
        in_ == Call("installTapDriver", <<FALSE, TRUE, FALSE>>, i)
    IN  IF u.thrown \/ u.code # DriverUninstalled THEN Did(<<un>>, u)
        ELSE Did(<<un, in_>>, i)

reinstallTapDriver(u, i) ==
    LET un == Call("uninstallTapDriver", <<FALSE, FALSE>>, u)
        in_ == Call("installTapDriver", <<FALSE, TRUE, FALSE>>, i)
    IN  IF u.thrown THEN Did(<<un>>, u)
        ELSE Did(<<un, in_>>, i)

\* the reboot flags of uninstallWintunDriver(): initialised, never assigned
rebootRequiredWireGuard == FALSE
rebootRequiredOpenVPN == FALSE
rebootRequiredUninstall == FALSE

uninstallWintunDriverInverted(d) ==
    LET del == Call("deleteDriver", <<>>, d)
    IN  IF d.code # 0 THEN Did(<<del>>, Ret(DriverUninstallFailed))
        ELSE Did(<<del>>, Ret(DriverUninstalled))

uninstallWintunDriver(d) ==
    LET del == Call("deleteDriver", <<>>, d)
    IN  IF d.code = 0 THEN Did(<<del>>, Ret(DriverUninstallFailed))
        ELSE IF \/ rebootRequiredWireGuard
                \/ rebootRequiredOpenVPN
                \/ rebootRequiredUninstall
             THEN Did(<<del>>, Ret(DriverUninstalledReboot))
        ELSE Did(<<del>>, Ret(DriverUninstalled))

createWintunAdapterRebootRaised(a) ==
    LET rebootRequired == a.code # 0
        rec == Call("recreateAdapter", <<>>, a)
    IN  IF a.code = 0 THEN Did(<<rec>>, Ret(DriverInstallFailed))
        ELSE IF rebootRequired THEN Did(<<rec>>, Ret(DriverInstalledReboot))
        ELSE Did(<<rec>>, Ret(DriverInstalled))

createWintunAdapter(a) ==
    LET rebootRequired == FALSE
        rec == Call("recreateAdapter", <<>>, a)
    IN  IF a.code = 0 THEN Did(<<rec>>, Ret(DriverInstallFailed))
        ELSE IF rebootRequired THEN Did(<<rec>>, Ret(DriverInstalledReboot))
        ELSE Did(<<rec>>, Ret(DriverInstalled))

installCalloutDriver(o) ==
    Did(<<Call("installCalloutDriver", <<FALSE>>, o)>>, o)

uninstallCalloutDriver(o) ==
    Did(<<Call("uninstallCalloutDriver", <<FALSE>>, o)>>, o)

reinstallCalloutDriverNoGate(u, i) ==
    LET un == Call("uninstallCalloutDriver", <<FALSE>>, u)
        in_ == Call("installCalloutDriver", <<FALSE>>, i)
    IN  IF u.thrown THEN Did(<<un>>, u)
        ELSE Did(<<un, in_>>, i)

reinstallCalloutDriver(u, i) ==
    LET un == Call("uninstallCalloutDriver", <<FALSE>>, u)
        in_ == Call("installCalloutDriver", <<FALSE>>, i)
    IN  IF u.thrown THEN Did(<<un>>, u)
        ELSE IF u.code = DriverUninstalledReboot THEN Did(<<un>>, u)
        ELSE Did(<<un, in_>>, i)

\* the lambda of run(): Exec::cmd(<brand>ctl.exe, {"-u", "checkdriver"})
sendCheckDriverHint(e) == <<Call("checkdriver", <<>>, e)>>

----------------------------------------------------------------------------
(* WinConsole::run(): the branch selected by the argument vector           *)

\* the branch "args.count() > 1"
SubCommand(a) ==
    IF MATCH_ARG(a, 1, T_help) \/ MATCH_ARG(a, 1, T_slashq) THEN "Help"
    ELSE IF MATCH_ARG(a, 1, T_run) THEN "Run"
    ELSE IF MATCH_ARG(a, 1, T_install) THEN "InstallService"
    ELSE IF MATCH_ARG(a, 1, T_uninstall) THEN "UninstallService"
    ELSE IF MATCH_ARG(a, 1, T_start) THEN "StartService"
    ELSE IF MATCH_ARG(a, 1, T_stop) THEN "StopService"
    ELSE IF MATCH_ARG(a, 1, T_tap) /\ Len(a) > 2 THEN
        IF MATCH_ARG(a, 2, T_install) THEN "TapInstall"
        ELSE IF MATCH_ARG(a, 2, T_uninstall) THEN "TapUninstall"
        ELSE IF MATCH_ARG(a, 2, T_reinstall) THEN "TapReinstall"
        ELSE "Unrecognized"
    ELSE IF MATCH_ARG(a, 1, T_tun) /\ Len(a) > 2 THEN
        IF MATCH_ARG(a, 2, T_uninstall) THEN "TunUninstall"
        ELSE IF MATCH_ARG(a, 2, T_create) THEN "TunCreate"
        ELSE "Unrecognized"
    ELSE IF MATCH_ARG(a, 1, T_callout) /\ Len(a) > 2 THEN
        IF MATCH_ARG(a, 2, T_install) THEN "CalloutInstall"
        ELSE IF MATCH_ARG(a, 2, T_uninstall) THEN "CalloutUninstall"
        ELSE IF MATCH_ARG(a, 2, T_reinstall) THEN "CalloutReinstall"
        ELSE "Unrecognized"
    ELSE "Unrecognized"

CommandNoArgsUnrecognized(a) ==
    IF Len(a) > 1 THEN SubCommand(a) ELSE "Unrecognized"

Command(a) ==
    IF Len(a) > 1 THEN SubCommand(a) ELSE "Help"

LogFilePathDaemonAlways(a) ==
    IF Len(a) > 1 THEN "DaemonLogFile" ELSE "none"

\* Path logFilePath: chosen only on the branch with a subcommand
LogFilePath(a) ==
    IF Len(a) > 1
    THEN IF MATCH_ARG(a, 1, T_run) THEN "DaemonLogFile" ELSE "ConfigLogFile"
    ELSE "none"

\* default argument of WinConsole::installTapDriver(bool force)
DefaultForce == FALSE

CalloutCommands == { "CalloutInstall", "CalloutUninstall", "CalloutReinstall" }
ServiceCommands == { "InstallService", "UninstallService", "StartService",
                     "StopService" }

\* outcomes the backend calls of a command can have, in call order
FirstOutcomes(cmd) ==
    IF cmd \in ServiceCommands THEN ServiceOutcomes
    ELSE IF cmd \in { "TunUninstall", "TunCreate" } THEN WintunOutcomes
    ELSE IF cmd \in { "Help", "Unrecognized", "Run" } THEN { NoCall }
    ELSE DriverOutcomes
SecondOutcomes(cmd) ==
    IF cmd \in { "TapReinstall", "CalloutReinstall" }
    THEN DriverOutcomes ELSE { NoCall }
HintOutcomes(cmd) ==
    IF cmd \in CalloutCommands THEN ExecOutcomes ELSE { NoCall }

\* the callout branch of run(): the driver operation, then the hint
calloutBranchHintFirst(did, e) ==
    Did(sendCheckDriverHint(e) \o did.calls, did.out)

calloutBranch(did, e) ==
    IF did.out.thrown THEN did
    ELSE Did(did.calls \o sendCheckDriverHint(e), did.out)

\* the body of the try block for every command but Run
Dispatch(cmd, o1, o2, e) ==
    CASE cmd = "InstallService"   -> Did(<<Call("installService", <<>>, o1)>>, o1)
      [] cmd = "UninstallService" -> Did(<<Call("uninstallService", <<>>, o1)>>, o1)
      [] cmd = "StartService"     -> Did(<<Call("startService", <<>>, o1)>>, o1)
      [] cmd = "StopService"      -> Did(<<Call("stopService", <<>>, o1)>>, o1)
      [] cmd = "TapInstall"       -> installTapDriver(DefaultForce, o1)
      [] cmd = "TapUninstall"     -> uninstallTapDriver(o1)
      [] cmd = "TapReinstall"     -> reinstallTapDriver(o1, o2)
      [] cmd = "TunUninstall"     -> uninstallWintunDriver(o1)
      [] cmd = "TunCreate"        -> createWintunAdapter(o1)
      [] cmd = "CalloutInstall"   -> calloutBranch(installCalloutDriver(o1), e)
      [] cmd = "CalloutUninstall" -> calloutBranch(uninstallCalloutDriver(o1), e)
      [] cmd = "CalloutReinstall" -> calloutBranch(reinstallCalloutDriver(o1, o2), e)
      [] cmd = "Help"             -> Did(<<>>, Ret(0))
      [] cmd = "Unrecognized"     -> Did(<<>>, Ret(1))

\* the catch block: switch (error.systemCode())
ExitCodeForError(sys) ==
    CASE sys \in { "ERROR_SERVICE_EXISTS", "ERROR_SERVICE_DOES_NOT_EXIST",
                   "ERROR_SERVICE_ALREADY_RUNNING",
                   "ERROR_SERVICE_NOT_ACTIVE" } -> 2
      [] sys \in { "ERROR_SERVICE_MARKED_FOR_DELETE",
                   "ERROR_AUTHENTICODE_PUBLISHER_NOT_TRUSTED",
                   "ERROR_AUTHENTICODE_TRUST_NOT_ESTABLISHED" } -> 3
      [] OTHER -> 1

\* what run() writes to stdout
Printed(cmd) ==
    CASE cmd = "Help" -> "usage"
      [] cmd = "Unrecognized" -> "unrecognized"
      [] OTHER -> "nothing"

\* try { ... } catch (const Error& error) { ... }: every Error is caught
tryCatchRethrowDefault(out) ==
    IF out.thrown
    THEN IF out.sys \in ListedServiceCodes \cup ListedTrustCodes
         THEN [escaped |-> FALSE, code |-> ExitCodeForError(out.sys)]
         ELSE [escaped |-> TRUE, code |-> -1]
    ELSE [escaped |-> FALSE, code |-> out.code]

tryCatchRebootAsSuccess(out) ==
    IF out.thrown
    THEN [escaped |-> FALSE, code |-> ExitCodeForError(out.sys)]
    ELSE [escaped |-> FALSE,
          code |-> IF out.code \in { DriverInstalledReboot, DriverUninstalledReboot }
                   THEN 0 ELSE out.code]

tryCatch(out) ==
    IF out.thrown
    THEN [escaped |-> FALSE, code |-> ExitCodeForError(out.sys)]
    ELSE [escaped |-> FALSE, code |-> out.code]

----------------------------------------------------------------------------
(* The daemon object and the console control handler                       *)

CTRL_C_EVENT        == "CTRL_C_EVENT"
CTRL_BREAK_EVENT    == "CTRL_BREAK_EVENT"
CTRL_CLOSE_EVENT    == "CTRL_CLOSE_EVENT"
CTRL_LOGOFF_EVENT   == "CTRL_LOGOFF_EVENT"
CTRL_SHUTDOWN_EVENT == "CTRL_SHUTDOWN_EVENT"
CtrlTypes == { CTRL_C_EVENT, CTRL_BREAK_EVENT, CTRL_CLOSE_EVENT,
               CTRL_LOGOFF_EVENT, CTRL_SHUTDOWN_EVENT, "CTRL_OTHER" }

\* QMetaObject::invokeMethod(g_console, &WinConsole::stopDaemon) from the
\* handler's thread: the call is posted to the thread g_console lives in
invokeMethod(q) == Append(q, "stopDaemon")

\* ctrlHandler(dwCtrlType): the queue it leaves and the BOOL it returns
ctrlHandlerBreakDropped(t, q) ==
    CASE t = CTRL_C_EVENT ->
            [queue |-> invokeMethod(q), ret |-> "TRUE"]
      [] t = CTRL_BREAK_EVENT ->
            [queue |-> q, ret |-> "TRUE"]
      [] t \in { CTRL_CLOSE_EVENT, CTRL_LOGOFF_EVENT, CTRL_SHUTDOWN_EVENT } ->
            [queue |-> invokeMethod(q), ret |-> "FALSE"]
      [] OTHER ->
            [queue |-> q, ret |-> "FALSE"]

ctrlHandlerCloseHandled(t, q) ==
    CASE t \in { CTRL_C_EVENT, CTRL_BREAK_EVENT, CTRL_CLOSE_EVENT } ->
            [queue |-> invokeMethod(q), ret |-> "TRUE"]
      [] t \in { CTRL_LOGOFF_EVENT, CTRL_SHUTDOWN_EVENT } ->
            [queue |-> invokeMethod(q), ret |-> "FALSE"]
      [] OTHER ->
            [queue |-> q, ret |-> "FALSE"]

ctrlHandler(t, q) ==
    CASE t \in { CTRL_C_EVENT, CTRL_BREAK_EVENT } ->
            [queue |-> invokeMethod(q), ret |-> "TRUE"]
      [] t \in { CTRL_CLOSE_EVENT, CTRL_LOGOFF_EVENT, CTRL_SHUTDOWN_EVENT } ->
            [queue |-> invokeMethod(q), ret |-> "FALSE"]
      [] OTHER ->
            [queue |-> q, ret |-> "FALSE"]

\* Daemon::stop(): begins the shutdown once; later calls find it under way
DaemonStop(l) == IF l = "Running" THEN "Stopping" ELSE l

\* WinConsole::stopDaemon(): _daemon->stop()
stopDaemonRestarting(l) == "Stopping"

stopDaemon(l) == DaemonStop(l)

\* _daemon->stop() while _daemon points to no Daemon (the constructor does
\* not set it): undefined behaviour, the call faults or goes unnoticed
stopDaemonUnset == { "fault", "survived" }

----------------------------------------------------------------------------
Init ==
    /\ args \in ArgVectors
    /\ pc = "start"
    /\ command = "none"
    /\ logTarget = "none"
    /\ printed = "nothing"
    /\ calls = <<>>
    /\ exitCode = -1
    /\ escaped = FALSE
    /\ daemon = "null"
    /\ lifecycle = "Idle"
    /\ loop = "notStarted"
    /\ eventQueue = <<>>
    /\ handlers = 0
    /\ ctrlHandlerInstalled = FALSE
    /\ signals = 0
    /\ handled = "none"
    /\ stopCalls = 0
    /\ requestedAt = "none"
    /\ earlyStop = "none"

\* stopDaemon() called on the console object before run()
StopDaemonEarly ==
    /\ pc = "start"
    /\ earlyStop = "none"
    /\ daemon = "null"
    /\ earlyStop' \in stopDaemonUnset
    /\ UNCHANGED <<args, pc, dispatchVars, daemon, lifecycle, loop, eventQueue,
                   handlers, ctrlHandlerInstalled, signals, handled, stopCalls,
                   requestedAt>>

\* run() for every command but Run, from entry to return
RunCommand ==
    /\ pc = "start"
    /\ earlyStop # "fault"
    /\ Command(args) # "Run"
    /\ LET cmd == Command(args) IN
       \E o1 \in FirstOutcomes(cmd), o2 \in SecondOutcomes(cmd),
          e \in HintOutcomes(cmd) :
          LET did == Dispatch(cmd, o1, o2, e)
              end == tryCatch(did.out)
          IN  /\ command' = cmd
              /\ logTarget' = LogFilePath(args)
              /\ printed' = Printed(cmd)
              /\ calls' = did.calls
              /\ exitCode' = end.code
              /\ escaped' = end.escaped
              /\ pc' = "done"
    /\ UNCHANGED <<args, daemonVars>>

\* run() up to the call of runDaemon()
RunSelected ==
    /\ pc = "start"
    /\ earlyStop # "fault"
    /\ Command(args) = "Run"
    /\ command' = "Run"
    /\ logTarget' = LogFilePath(args)
    /\ pc' = "runDaemon"
    /\ UNCHANGED <<args, printed, calls, exitCode, escaped, daemonVars>>

NewDaemonDeferred ==
    /\ pc = "runDaemon"
    /\ pc' = "setHandler"
    /\ UNCHANGED <<args, dispatchVars, daemon, lifecycle, loop, eventQueue,
                   handlers, ctrlHandlerInstalled, signals, handled, stopCalls,
                   requestedAt, earlyStop>>

\* runDaemon(): new WinDaemon(this) and the two connects
NewDaemon ==
    /\ pc = "runDaemon"
    /\ daemon' = "WinDaemon"
    /\ pc' = "setHandler"
    /\ UNCHANGED <<args, dispatchVars, lifecycle, loop, eventQueue, handlers,
                   ctrlHandlerInstalled, signals, handled, stopCalls,
                   requestedAt, earlyStop>>

\* runDaemon(): SetConsoleCtrlHandler(ctrlHandler, TRUE), which can fail
SetHandler ==
    /\ pc = "setHandler"
    /\ \E ok \in BOOLEAN :
          /\ ctrlHandlerInstalled' = ok
          /\ handlers' = IF ok THEN handlers + 1 ELSE handlers
    /\ pc' = "startDaemon"
    /\ UNCHANGED <<args, dispatchVars, daemon, lifecycle, loop, eventQueue,
                   signals, handled, stopCalls, requestedAt, earlyStop>>

DaemonStartNoExec ==
    /\ pc = "startDaemon"
    /\ lifecycle' = "Running"
    /\ pc' = "afterStart"
    /\ UNCHANGED <<args, dispatchVars, daemon, loop, eventQueue, handlers,
                   ctrlHandlerInstalled, signals, handled, stopCalls,
                   requestedAt, earlyStop>>

\* runDaemon(): _daemon->start(); started() is connected to
\* QCoreApplication::exec, so the call stays inside the event loop
DaemonStart ==
    /\ pc = "startDaemon"
    /\ lifecycle' = "Running"
    /\ loop' = "running"
    /\ pc' = "exec"
    /\ UNCHANGED <<args, dispatchVars, daemon, eventQueue, handlers,
                   ctrlHandlerInstalled, signals, handled, stopCalls,
                   requestedAt, earlyStop>>

CtrlHandlerDirect(t) ==
    /\ handlers > 0
    /\ signals < MaxSignals
    /\ LET r == ctrlHandler(t, eventQueue) IN
          /\ handled' = r.ret
          /\ lifecycle' = IF r.queue # eventQueue
                          THEN stopDaemon(lifecycle) ELSE lifecycle
          /\ stopCalls' = IF r.queue # eventQueue
                          THEN stopCalls + 1 ELSE stopCalls
    /\ signals' = signals + 1
    /\ requestedAt' =
          IF requestedAt = "none" /\ t # "CTRL_OTHER" THEN loop ELSE requestedAt
    /\ UNCHANGED <<args, pc, dispatchVars, daemon, loop, eventQueue, handlers,
                   ctrlHandlerInstalled, earlyStop>>

\* the OS calls ctrlHandler on a thread of its own
CtrlHandler(t) ==
    /\ handlers > 0
    /\ signals < MaxSignals
    /\ LET r == ctrlHandler(t, eventQueue) IN
          /\ eventQueue' = r.queue
          /\ handled' = r.ret
    /\ signals' = signals + 1
    /\ requestedAt' =
          IF requestedAt = "none" /\ t # "CTRL_OTHER" THEN loop ELSE requestedAt
    /\ UNCHANGED <<args, pc, dispatchVars, daemon, lifecycle, loop, handlers,
                   ctrlHandlerInstalled, stopCalls, earlyStop>>

\* the event loop delivers a posted stopDaemon(); after quit() the batch
\* of events already posted may still be delivered before exec() returns
DeliverQueued ==
    /\ loop \in { "running", "quitting" }
    /\ eventQueue # <<>>
    /\ eventQueue' = Tail(eventQueue)
    /\ lifecycle' = stopDaemon(lifecycle)
    /\ stopCalls' = stopCalls + 1
    /\ UNCHANGED <<args, pc, dispatchVars, daemon, loop, handlers,
                   ctrlHandlerInstalled, signals, handled, requestedAt, earlyStop>>

\* the daemon decides to stop by itself, through the same Daemon::stop()
DaemonInternalStop ==
    /\ loop = "running"
    /\ lifecycle = "Running"
    /\ lifecycle' = DaemonStop(lifecycle)
    /\ stopCalls' = stopCalls + 1
    /\ UNCHANGED <<args, pc, dispatchVars, daemon, loop, eventQueue, handlers,
                   ctrlHandlerInstalled, signals, handled, requestedAt, earlyStop>>

\* the shutdown completes: stopped() is connected to QCoreApplication::quit
DaemonStopped ==
    /\ loop = "running"
    /\ lifecycle = "Stopping"
    /\ lifecycle' = "Stopped"
    /\ loop' = "quitting"
    /\ UNCHANGED <<args, pc, dispatchVars, daemon, eventQueue, handlers,
                   ctrlHandlerInstalled, signals, handled, stopCalls,
                   requestedAt, earlyStop>>

\* exec() returns, and with it _daemon->start()
StartReturns ==
    /\ pc = "exec"
    /\ loop = "quitting"
    /\ loop' = "exited"
    /\ pc' = "afterStart"
    /\ UNCHANGED <<args, dispatchVars, daemon, lifecycle, eventQueue, handlers,
                   ctrlHandlerInstalled, signals, handled, stopCalls,
                   requestedAt, earlyStop>>

RunDaemonReturnKeepsHandler ==
    /\ pc = "afterStart"
    /\ exitCode' = 0
    /\ pc' = "done"
    /\ UNCHANGED <<args, command, logTarget, printed, calls, escaped, daemon,
                   lifecycle, loop, eventQueue, handlers, ctrlHandlerInstalled,
                   signals, handled, stopCalls, requestedAt, earlyStop>>

\* runDaemon(): the handler is removed if it was installed; return 0
RunDaemonReturn ==
    /\ pc = "afterStart"
    /\ handlers' = IF ctrlHandlerInstalled THEN handlers - 1 ELSE handlers
    /\ exitCode' = 0
    /\ pc' = "done"
    /\ UNCHANGED <<args, command, logTarget, printed, calls, escaped, daemon,
                   lifecycle, loop, eventQueue, ctrlHandlerInstalled, signals,
                   handled, stopCalls, requestedAt, earlyStop>>

Next ==
    \/ StopDaemonEarly
    \/ RunCommand
    \/ RunSelected
    \/ NewDaemon
    \/ SetHandler
    \/ DaemonStart
    \/ \E t \in CtrlTypes : CtrlHandler(t)
    \/ DeliverQueued
    \/ DaemonInternalStop
    \/ DaemonStopped
    \/ StartReturns
    \/ RunDaemonReturn

Spec == Init /\ [][Next]_vars

\* the primary thread runs, and its event loop keeps delivering events
FairSpec ==
    /\ Spec
    /\ WF_vars(DaemonStart)
    /\ WF_vars(DeliverQueued)
    /\ WF_vars(DaemonStopped)
    /\ WF_vars(StartReturns)
    /\ WF_vars(RunDaemonReturn)

TypeOK ==
    /\ args \in ArgVectors
    /\ pc \in { "start", "runDaemon", "setHandler", "startDaemon", "exec",
                "afterStart", "done" }
    /\ lifecycle \in { "Idle", "Running", "Stopping", "Stopped" }
    /\ loop \in { "notStarted", "running", "quitting", "exited" }
    /\ handlers \in 0..1
    /\ Len(eventQueue) <= MaxSignals
    /\ exitCode \in -1..40
    /\ earlyStop \in { "none", "fault", "survived" }

----------------------------------------------------------------------------
(* The command grammar as the documentation states it (lower case)         *)

TopLevelNames == { T_help, T_slashq, T_run, T_install, T_uninstall, T_start,
                   T_stop, T_tap, T_tun, T_callout }
GroupNames == { T_tap, T_tun, T_callout }
SubActions(g) ==
    IF g = T_tap THEN { T_install, T_uninstall, T_reinstall }
    ELSE IF g = T_tun THEN { T_uninstall, T_create }
    ELSE { T_install, T_uninstall, T_reinstall }

\* at least 2 tokens, and token[1] is no command or lacks its sub-action
UnrecognizedArgv(a) ==
    /\ Len(a) >= 2
    /\ LET t1 == LowerToken(a[2]) IN
          \/ t1 \notin TopLevelNames
          \/ /\ t1 \in GroupNames
             /\ \/ Len(a) < 3
                \/ LowerToken(a[3]) \notin SubActions(t1)

NoBackendOperation ==
    /\ calls = <<>>
    /\ daemon = "null"
    /\ lifecycle = "Idle"
    /\ handlers = 0

Returned == pc = "done"

----------------------------------------------------------------------------
(* C1: every Error raised by a dispatched operation is caught in run(),    *)
(* never leaves it, and the exit code depends on the system code alone:    *)
(* the four service-state codes give 2, marked-for-delete and the two      *)
(* Authenticode codes give 3, every other code gives 1.                    *)
C1_ErrorsCaughtAndMapped ==
    /\ ~escaped
    /\ \A k \in 1..Len(calls) :
          calls[k].out.thrown =>
             /\ Returned
             /\ k = Len(calls)
             /\ (calls[k].out.sys \in ListedServiceCodes => exitCode = 2)
             /\ (calls[k].out.sys \in ListedTrustCodes => exitCode = 3)
             /\ (calls[k].out.sys \notin ListedServiceCodes \cup ListedTrustCodes
                    => exitCode = 1)

C1_Witness ==
    /\ Returned
    /\ command = "StartService"
    /\ calls = <<Call("startService", <<>>, Throw("ERROR_SERVICE_ALREADY_RUNNING"))>>
    /\ exitCode = 2

(* C2: with at least 2 tokens, an unmatched token[1], or tap/tun/callout   *)
(* with token[2] absent or unmatched, yields Unrecognized: run() returns 1 *)
(* and invokes no backend operation; a partial match selects nothing.      *)
C2_UnrecognizedReturnsOne ==
    (pc # "start" /\ UnrecognizedArgv(args)) =>
        /\ Returned
        /\ command = "Unrecognized"
        /\ printed = "unrecognized"
        /\ exitCode = 1
        /\ NoBackendOperation

C2_Witness ==
    /\ Returned
    /\ Len(args) = 3
    /\ LowerToken(args[2]) = T_tun
    /\ args[3] = T_install
    /\ exitCode = 1

(* C3: with fewer than 2 tokens run() behaves as Help: it prints the       *)
(* usage, returns 0 and invokes no backend operation.                      *)
C3_NoSubcommandIsHelp ==
    (pc # "start" /\ Len(args) < 2) =>
        /\ Returned
        /\ printed = "usage"
        /\ exitCode = 0
        /\ NoBackendOperation

C3_Witness ==
    /\ Returned
    /\ args = <<ProgramName>>
    /\ printed = "usage"

(* C4 as stated: with fewer than 2 tokens the result is Unrecognized with  *)
(* exit code 1, and no backend operation is invoked.                       *)
C4_Original ==
    (Returned /\ Len(args) < 2) =>
        /\ command = "Unrecognized"
        /\ exitCode = 1
        /\ NoBackendOperation

(* C4 amended: with fewer than 2 tokens the result is Help, not            *)
(* Unrecognized, with exit code 0, and no backend operation is invoked.    *)
C4_FewerThanTwoTokens ==
    (Returned /\ Len(args) < 2) =>
        /\ command = "Help"
        /\ command # "Unrecognized"
        /\ exitCode = 0
        /\ exitCode # 1
        /\ NoBackendOperation

C4_Witness ==
    /\ Returned
    /\ Len(args) < 2
    /\ command = "Help"
    /\ exitCode = 0

(* C5: matching ignores case: an argument vector selects the command its   *)
(* lower-case spelling selects, with the same backend operations and the   *)
(* same exit code.                                                         *)
C5_CaseInsensitive ==
    LET cmd == Command(LowerArgs(args)) IN
    /\ pc # "start" => command = cmd
    /\ (Returned /\ cmd # "Run") =>
          \E o1 \in FirstOutcomes(cmd), o2 \in SecondOutcomes(cmd),
             e \in HintOutcomes(cmd) :
             LET did == Dispatch(cmd, o1, o2, e) IN
                /\ calls = did.calls
                /\ exitCode = tryCatch(did.out).code

C5_Witness ==
    /\ Returned
    /\ Len(args) = 3
    /\ args[2] = UpperToken(T_callout)
    /\ args[3] = <<"r","e","I","n","S","t","a","l","l">>
    /\ command = "CalloutReinstall"
    /\ Len(calls) = 3

(* C6 as stated: every invocation that selects callout install, uninstall  *)
(* or reinstall invokes the checkdriver hint exactly once, after the       *)
(* driver operation, whatever that operation's outcome, and run() returns  *)
(* the driver operation's result.                                          *)
C6_NotifierExactlyOnce ==
    (Returned /\ command \in CalloutCommands) =>
        /\ Cardinality({ k \in 1..Len(calls) : calls[k].op = "checkdriver" }) = 1
        /\ Len(calls) >= 2
        /\ calls[Len(calls)].op = "checkdriver"
        /\ ~calls[Len(calls) - 1].out.thrown
              => exitCode = calls[Len(calls) - 1].out.code

(* C7: reinstallCalloutDriver() uninstalls first; when the uninstall       *)
(* yields DriverUninstalledReboot the install is never invoked and that    *)
(* status is the result; for every other uninstall result the install is   *)
(* invoked exactly once and its result is the overall result.              *)
C7_CalloutReinstallGate ==
    (Returned /\ command = "CalloutReinstall") =>
        /\ Len(calls) >= 1
        /\ calls[1].op = "uninstallCalloutDriver"
        /\ LET u == calls[1].out
               installs == { k \in 1..Len(calls) :
                               calls[k].op = "installCalloutDriver" }
           IN  /\ (~u.thrown /\ u.code = DriverUninstalledReboot) =>
                     /\ installs = {}
                     /\ exitCode = DriverUninstalledReboot
               /\ (~u.thrown /\ u.code # DriverUninstalledReboot) =>
                     /\ installs = {2}
                     /\ ~calls[2].out.thrown => exitCode = calls[2].out.code

C7_Witness ==
    /\ Returned
    /\ command = "CalloutReinstall"
    /\ calls[1] = Call("uninstallCalloutDriver", <<FALSE>>,
                       Ret(DriverUninstalledReboot))
    /\ exitCode = DriverUninstalledReboot

C9_NoLostWakeup ==
    (requestedAt # "none") ~> (Returned /\ lifecycle = "Stopped")

C9_Witness ==
    /\ requestedAt = "notStarted"
    /\ Returned
    /\ lifecycle = "Stopped"
    /\ stopCalls >= 1

(* C10: a stop request that finds the daemon stopping or stopped changes   *)
(* nothing: the lifecycle, the event loop and the primary context stay as  *)
(* one stop request left them, and run() still returns.                    *)
C10_LateStopIsNoOp ==
    /\ [][ (stopCalls' = stopCalls + 1 /\ lifecycle \in { "Stopping", "Stopped" })
              => (lifecycle' = lifecycle /\ loop' = loop /\ pc' = pc) ]_vars
    /\ (stopCalls >= 2) ~> (Returned /\ lifecycle = "Stopped")

C10_Witness ==
    /\ stopCalls >= 2
    /\ Returned
    /\ lifecycle = "Stopped"

(* C11 as stated: stopDaemon() invoked before run() has constructed the   *)
(* daemon does not throw or fault, and a run() that follows still starts   *)
(* the daemon.                                                             *)
C11_EarlyStopHarmless ==
    earlyStop # "none" =>
        /\ earlyStop # "fault"
        /\ (Returned /\ command = "Run") => lifecycle = "Stopped"

(* C12: the handler requests a daemon stop for Ctrl-C and Ctrl-Break and   *)
(* reports the event as handled; for close, logoff and shutdown it         *)
(* requests a stop and reports not handled; it returns without waiting     *)
(* for the daemon, which is as it was when the handler returns.            *)
StopPosted == eventQueue' = Append(eventQueue, "stopDaemon")

C12_HandlerRequestsStop ==
    [][ /\ \A t \in { CTRL_C_EVENT, CTRL_BREAK_EVENT } :
             CtrlHandler(t) =>
                (StopPosted /\ handled' = "TRUE" /\ lifecycle' = lifecycle)
        /\ \A t \in { CTRL_CLOSE_EVENT, CTRL_LOGOFF_EVENT, CTRL_SHUTDOWN_EVENT } :
             CtrlHandler(t) =>
                (StopPosted /\ handled' = "FALSE" /\ lifecycle' = lifecycle)
      ]_vars

C12_Witness ==
    /\ signals = 1
    /\ handled = "FALSE"
    /\ eventQueue = <<"stopDaemon">>
    /\ lifecycle = "Running"

(* C13: the lifecycle of Run only advances Idle, Running, Stopping,        *)
(* Stopped; _daemon->start() returns only once the daemon has stopped, so  *)
(* run() returns in state Stopped, and it returns 0.                       *)
LifecycleRank(l) ==
    CASE l = "Idle" -> 0 [] l = "Running" -> 1 [] l = "Stopping" -> 2
      [] l = "Stopped" -> 3

C13_LifecycleOrder ==
    /\ [][ LifecycleRank(lifecycle') \in
              { LifecycleRank(lifecycle), LifecycleRank(lifecycle) + 1 } ]_vars
    /\ []( (command = "Run" /\ pc \in { "afterStart", "done" })
              => lifecycle = "Stopped" )
    /\ []( (command = "Run" /\ Returned) => exitCode = 0 )

C13_Witness ==
    /\ command = "Run"
    /\ Returned
    /\ lifecycle = "Stopped"
    /\ exitCode = 0
    /\ stopCalls >= 1

(* C14: a tap, tun or callout command that ends without an Error returns,  *)
(* unmodified, what the selected driver operation returned: the backend's  *)
(* raw code for tap and callout, a DriverStatus ordinal for tun; a         *)
(* reboot-required status stays its own ordinal and is not turned into 0.  *)
TapCommands == { "TapInstall", "TapUninstall", "TapReinstall" }
TunCommands == { "TunUninstall", "TunCreate" }
DriverCalls == SelectSeq(calls, LAMBDA c : c.op # "checkdriver")

C14_ExitCodeIsDriverResult ==
    (/\ Returned
     /\ command \in TapCommands \cup TunCommands \cup CalloutCommands
     /\ \A k \in 1..Len(calls) : ~calls[k].out.thrown) =>
        /\ Len(DriverCalls) >= 1
        /\ command \in TapCommands \cup CalloutCommands =>
              exitCode = DriverCalls[Len(DriverCalls)].out.code
        /\ command \in TunCommands => exitCode \in DriverStatusValues
        /\ DriverCalls[Len(DriverCalls)].out.code \in
              { DriverInstalledReboot, DriverUninstalledReboot } =>
              exitCode # 0

C14_Witness ==
    /\ Returned
    /\ command = "CalloutUninstall"
    /\ calls[1].out = Ret(DriverUninstalledReboot)
    /\ exitCode = DriverUninstalledReboot

(* C15 as stated: during Run the handler is registered exactly once, stays *)
(* registered while _daemon->start() is blocked, and is removed before     *)
(* run() returns; it is never registered twice, nor for another command.   *)
C15_Original ==
    /\ handlers \in 0..1
    /\ command # "Run" => handlers = 0
    /\ (command = "Run" /\ pc \in { "startDaemon", "exec", "afterStart" })
          => handlers = 1
    /\ Returned => handlers = 0

(* C15 amended: during Run the handler is registered at most once; when    *)
(* SetConsoleCtrlHandler succeeds it stays registered while                *)
(* _daemon->start() is blocked and is removed before run() returns; when   *)
(* it fails the daemon runs with no handler; the handler is never          *)
(* registered twice, nor for another command.                              *)
C15_HandlerRegistration ==
    /\ handlers \in 0..1
    /\ command # "Run" => handlers = 0
    /\ pc \in { "start", "runDaemon", "setHandler" } => handlers = 0
    /\ (command = "Run" /\ pc \in { "startDaemon", "exec", "afterStart" })
          => handlers = (IF ctrlHandlerInstalled THEN 1 ELSE 0)
    /\ Returned => handlers = 0

C15_Witness ==
    /\ command = "Run"
    /\ Returned
    /\ ctrlHandlerInstalled
    /\ signals >= 1
    /\ handlers = 0

(* C16: uninstallWintunDriver() returns one status and raises nothing:     *)
(* DriverUninstallFailed exactly when the deletion fails; when it          *)
(* succeeds, DriverUninstalledReboot if a reboot flag is set and           *)
(* DriverUninstalled otherwise.                                            *)
C16_WintunUninstallStatus ==
    (Returned /\ command = "TunUninstall") =>
        /\ Len(calls) = 1
        /\ calls[1].op = "deleteDriver"
        /\ ~calls[1].out.thrown
        /\ ~escaped
        /\ (exitCode = DriverUninstallFailed) <=> (calls[1].out.code = 0)
        /\ calls[1].out.code # 0 =>
              exitCode = IF \/ rebootRequiredWireGuard
                            \/ rebootRequiredOpenVPN
                            \/ rebootRequiredUninstall
                         THEN DriverUninstalledReboot
                         ELSE DriverUninstalled

C16_Witness ==
    /\ Returned
    /\ command = "TunUninstall"
    /\ calls[1].out.code = 0
    /\ exitCode = DriverUninstallFailed

(* C17: with a subcommand, the log destination is chosen before anything   *)
(* is dispatched; it is the daemon log exactly when token[1] matches run,  *)
(* and the setup log for every other command, unrecognized ones included.  *)
C17_LogDestination ==
    /\ (pc # "start" /\ Len(args) >= 2) =>
          logTarget = IF LowerToken(args[2]) = T_run
                      THEN "DaemonLogFile" ELSE "ConfigLogFile"
    /\ (calls # <<>> \/ daemon # "null") => logTarget # "none"
    /\ (pc # "start" /\ command # "Run") => logTarget # "DaemonLogFile"

C17_Witness ==
    /\ Returned
    /\ Len(args) >= 2
    /\ command = "Unrecognized"
    /\ logTarget = "ConfigLogFile"

(* C18: the handler's context does not block and does not change the       *)
(* daemon: when it runs, the only shared state it may change is the queue, *)
(* by posting one stop request; the daemon begins to stop only inside      *)
(* Daemon::stop().                                                         *)
C18_HandlerOnlyPosts ==
    /\ [][ signals' # signals =>
              /\ lifecycle' = lifecycle
              /\ daemon' = daemon
              /\ loop' = loop
              /\ pc' = pc
              /\ stopCalls' = stopCalls
              /\ eventQueue' \in { eventQueue, Append(eventQueue, "stopDaemon") }
         ]_vars
    /\ [][ (lifecycle = "Running" /\ lifecycle' # "Running")
              => (lifecycle' = "Stopping" /\ stopCalls' = stopCalls + 1) ]_vars

C18_Witness ==
    /\ signals = 1
    /\ handled = "TRUE"
    /\ eventQueue = <<>>
    /\ stopCalls = 1
    /\ lifecycle = "Stopping"

(* C19: a stopDaemon() caused by a console signal runs only with the       *)
(* daemon constructed: the handler is registered after the construction    *)
(* and posted requests are delivered by the event loop alone; a request    *)
(* posted after the event loop has exited is never executed.               *)
C19_SignalStopFindsDaemon ==
    /\ []( (handlers > 0 \/ signals > 0 \/ eventQueue # <<>>)
              => daemon = "WinDaemon" )
    /\ [][ (eventQueue # <<>> /\ eventQueue' = Tail(eventQueue)) =>
              (daemon = "WinDaemon" /\ loop \in { "running", "quitting" }) ]_vars
    /\ [][ loop = "exited" =>
              (stopCalls' = stopCalls /\ lifecycle' = lifecycle
               /\ Len(eventQueue') >= Len(eventQueue)) ]_vars

C19_Witness ==
    /\ requestedAt = "exited"
    /\ eventQueue # <<>>
    /\ Returned

(* C20: the modern-adapter operations never report a reboot:               *)
(* uninstallWintunDriver() returns DriverUninstallFailed or                *)
(* DriverUninstalled, createWintunAdapter() returns DriverInstallFailed or *)
(* DriverInstalled, whatever the backend answers.                          *)
C20_NoRebootFromWintun ==
    /\ (Returned /\ command = "TunUninstall") =>
          exitCode \in { DriverUninstallFailed, DriverUninstalled }
    /\ (Returned /\ command = "TunCreate") =>
          exitCode \in { DriverInstallFailed, DriverInstalled }

C20_Witness ==
    /\ Returned
    /\ command = "TunCreate"
    /\ calls[1].out.code # 0
    /\ exitCode = DriverInstalled

====
